---- MODULE Spec2Model ----
(***************************************************************************)
(* A model of the game engine of tetris.py: the helpers rotate, new_piece, *)
(* valid, lock, clear_lines and level_interval as operators, and the game  *)
(* loop of main() as a state machine.  One iteration of the loop ("tick")  *)
(* is split at its event loop: BeginTick is the timer increment, each Key* *)
(* action is the handling of one KEYDOWN event, EndTick is what follows    *)
(* the event loop (the paused `continue`, or the gravity step).            *)
(*                                                                         *)
(* Indices: Python's 0-based rows and columns are kept in piece.x, piece.y *)
(* and in the arithmetic of valid and lock; the sequences that hold the    *)
(* board and the shapes are 1-based, so cell (row r, column c) of the code *)
(* is board[r + 1][c + 1].                                                 *)
(*                                                                         *)
(* Drawing, the start screen and the QUIT / K_q exits (which end the       *)
(* process and leave no state behind) are not modelled.                    *)
(***************************************************************************)
EXTENDS Integers, Sequences, FiniteSets, TLC

\* ---------------------------------------------------------------- bounds
\* The board of the source is 10 x 20 (COLS, ROWS = 10, 20); the model keeps
\* the names and checks a smaller board.
COLS == 4
ROWS == 4
\* Loop iterations explored in one session.
MaxTicks == 2
\* KEYDOWN events handled in one loop iteration.
MaxEvents == 2
\* Loop iterations explored in one long session (SpecLong).
LongTicks == 12
\* Values of fall_timer from which a long session goes on.
LongIdle == 1
\* Levels the helpers are called with on their own.
MaxLevel == 14
\* Pieces followed until they settle in a session without end (SpecLive).
LiveLocks == 1

\* ------------------------------------------------------------- constants
\* An empty board cell (the code's 0; an occupied cell holds the piece name).
EMPTY == "0"

SHAPES ==
  [ I |-> << <<1, 1, 1, 1>> >>,
    O |-> << <<1, 1>>, <<1, 1>> >>,
    T |-> << <<0, 1, 0>>, <<1, 1, 1>> >>,
    S |-> << <<0, 1, 1>>, <<1, 1, 0>> >>,
    Z |-> << <<1, 1, 0>>, <<0, 1, 1>> >>,
    J |-> << <<1, 0, 0>>, <<1, 1, 1>> >>,
    L |-> << <<0, 0, 1>>, <<1, 1, 1>> >> ]

\* list(SHAPES): the names random.choice draws from.
Names == DOMAIN SHAPES

\* LINE_SCORES[k] of the code is LINE_SCORES[k + 1] here.
LINE_SCORES == <<0, 100, 300, 500, 800>>

\* --------------------------------------------------------------- helpers
Max(a, b) == IF a >= b THEN a ELSE b

\* rotate reading the rows from the second-to-last one up
\* (`zip(*shape[-2::-1])`, the first row standing in where none is left).
rotate_skipping_last_row(shape) ==
  LET R == Len(shape)
      C == Len(shape[1])
  IN  [i \in 1..C |-> [j \in 1..R |-> shape[Max(1, R - j)][i]]]

\* zip(*shape[::-1]): row i of the result is column i of the shape read
\* from the last row up.
rotate(shape) ==
  LET R == Len(shape)
      C == Len(shape[1])
  IN  [i \in 1..C |-> [j \in 1..R |-> shape[R - j + 1][i]]]

new_piece(name) ==
  [ name  |-> name,
    shape |-> SHAPES[name],
    x     |-> (COLS \div 2) - (Len(SHAPES[name][1]) \div 2),
    y     |-> 0 ]

\* valid without the `ny >= 0 and` of its occupancy test: a negative row
\* index reads the board from its last row up, as a Python list does.
valid_negative_index(b, p, dx, dy, s) ==
  \A r \in 1..Len(s) : \A c \in 1..Len(s[1]) :
    (s[r][c] # 0) =>
      LET nx == p.x + (c - 1) + dx
          ny == p.y + (r - 1) + dy
      IN  /\ ~(nx < 0 \/ nx >= COLS \/ ny >= ROWS)
          /\ ~(b[((ny + ROWS) % ROWS) + 1][nx + 1] # EMPTY)

\* valid(board, piece, dx, dy, shape); the code's default shape=None is
\* written out by the callers as piece.shape.
valid(b, p, dx, dy, s) ==
  \A r \in 1..Len(s) : \A c \in 1..Len(s[1]) :
    (s[r][c] # 0) =>
      LET nx == p.x + (c - 1) + dx
          ny == p.y + (r - 1) + dy
      IN  /\ ~(nx < 0 \/ nx >= COLS \/ ny >= ROWS)
          /\ ~(ny >= 0 /\ b[ny + 1][nx + 1] # EMPTY)

\* Whether the piece has an occupied shape cell on board cell (r, c), 0-based.
Covers(p, r, c) ==
  /\ r - p.y + 1 \in 1..Len(p.shape)
  /\ c - p.x + 1 \in 1..Len(p.shape[1])
  /\ p.shape[r - p.y + 1][c - p.x + 1] # 0

\* lock writing the first row of the piece's matrix only.
lock_first_row(b, p) ==
  [r \in 1..Len(b) |->
    [c \in 1..COLS |->
      IF r - 1 = p.y /\ Covers(p, r - 1, c - 1) THEN p.name ELSE b[r][c]]]

\* lock(board, piece): the piece's name written into every cell it covers.
\* The code writes board[y + r][x + c] unchecked; Settle reaches lock only
\* with a piece whose cells all lie on the board, where the two agree.
lock(b, p) ==
  [r \in 1..Len(b) |->
    [c \in 1..COLS |-> IF Covers(p, r - 1, c - 1) THEN p.name ELSE b[r][c]]]

EmptyRow == [c \in 1..COLS |-> EMPTY]

\* all(row)
FullRow(row) == \A c \in 1..Len(row) : row[c] # EMPTY

\* full = [r for r, row in enumerate(board) if all(row)], as 1-based indices
\* in increasing order, for the rows from index r on.
RECURSIVE FullFrom(_, _)
FullFrom(b, r) ==
  IF r > Len(b) THEN <<>>
  ELSE (IF FullRow(b[r]) THEN <<r>> ELSE <<>>) \o FullFrom(b, r + 1)

\* del board[r]; board.insert(0, [0] * COLS)
DelInsert(b, r) ==
  <<EmptyRow>> \o SubSeq(b, 1, r - 1) \o SubSeq(b, r + 1, Len(b))

\* for r in full: del board[r]; board.insert(0, ...)
RECURSIVE ClearEach(_, _)
ClearEach(b, full) ==
  IF full = <<>> THEN b
  ELSE ClearEach(DelInsert(b, Head(full)), Tail(full))

\* clear_lines removing the first full row only.
clear_lines_first_only(b) ==
  LET full == FullFrom(b, 1)
  IN  IF full = <<>> THEN [board |-> b, cleared |-> 0]
      ELSE [board |-> DelInsert(b, Head(full)), cleared |-> 1]

\* clear_lines taking the full rows from the last one up
\* (`for r in reversed(full)`).
clear_lines_bottom_up(b) ==
  LET full == FullFrom(b, 1)
      n    == Len(full)
  IN  [board |-> ClearEach(b, [i \in 1..n |-> full[n - i + 1]]), cleared |-> n]

\* clear_lines(board): the board it leaves and the count it returns.
clear_lines(b) ==
  LET full == FullFrom(b, 1)
  IN  [board |-> ClearEach(b, full), cleared |-> Len(full)]

\* level_interval without the floor of max(2, ...).
level_interval_no_floor(lv) == 48 - (lv - 1) * 4

level_interval(lv) == Max(2, 48 - (lv - 1) * 4)

\* ----------------------------------------------------------------- state
VARIABLES
  board,        \* ROWS rows of COLS cells, EMPTY or a piece name
  piece,        \* the active piece: [name, shape, x, y]
  next_piece,   \* the queued piece
  score, level, total_lines,
  fall_timer,
  paused, game_over,
  pc,           \* "loop": at the top of the game loop; "events": in its event loop
  ticks,        \* loop iterations begun in this session
  nev,          \* events handled in this iteration
  last,         \* history: the last operation and the game state it started from
  drops,        \* history: the drop keys that took effect in the iteration
                \* begun last
  hard_dropped, \* history: a hard drop took effect since the last gravity check
  locks         \* history: the pieces locked so far in the session

vars == <<board, piece, next_piece, score, level, total_lines,
          fall_timer, paused, game_over, pc, ticks, nev, last,
          drops, hard_dropped, locks>>

\* What the history variable keeps of the state an operation started from.
Snapshot ==
  [ piece |-> piece, score |-> score, level |-> level,
    total_lines |-> total_lines, fall_timer |-> fall_timer, paused |-> paused ]

Did(op) == last' = [op |-> op, pre |-> Snapshot]

\* The start of a session (main, the head of the restart loop).
NewSession(names) ==
  \E n1 \in names, n2 \in names :
    /\ board = [r \in 1..ROWS |-> EmptyRow]
    /\ piece = new_piece(n1)
    /\ next_piece = new_piece(n2)
    /\ score = 0 /\ level = 1 /\ total_lines = 0
    /\ fall_timer = 0
    /\ paused = FALSE
    /\ game_over = FALSE

Init ==
  /\ NewSession(Names)
  /\ pc = "loop" /\ ticks = 0 /\ nev = 0
  /\ last = [op |-> "NEW", pre |-> Snapshot]
  /\ drops = <<>> /\ hard_dropped = FALSE /\ locks = 0

\* while not game_over: clock.tick(FPS); fall_timer += 1
LoopHead ==
  /\ pc = "loop" /\ ~game_over
  /\ fall_timer' = fall_timer + 1
  /\ pc' = "events" /\ nev' = 0 /\ drops' = <<>>
  /\ Did("TICK")
  /\ UNCHANGED <<board, piece, next_piece, score, level, total_lines,
                 paused, game_over, hard_dropped, locks>>

\* The head of the loop, the iteration counted.
BeginTick == LoopHead /\ ticks' = ticks + 1

Tick == ticks < MaxTicks /\ BeginTick

\* One KEYDOWN event taken from pygame.event.get(): the part common to all
\* keys.  `if paused: continue` leaves the game state as it is.
Event(op) ==
  /\ pc = "events"
  /\ nev < MaxEvents
  /\ nev' = nev + 1
  /\ Did(op)
  /\ UNCHANGED <<pc, ticks, game_over, locks>>

\* K_p: paused = not paused.  No other branch of the handler matches K_p.
KeyP ==
  /\ Event("P")
  /\ paused' = ~paused
  /\ UNCHANGED <<board, piece, next_piece, score, level, total_lines, fall_timer,
                 drops, hard_dropped>>

\* K_LEFT: if valid(board, piece, dx=-1): piece['x'] -= 1
KeyLeft ==
  /\ Event("LEFT")
  /\ piece' = IF ~paused /\ valid(board, piece, -1, 0, piece.shape)
              THEN [piece EXCEPT !.x = @ - 1] ELSE piece
  /\ UNCHANGED <<board, next_piece, score, level, total_lines, fall_timer, paused,
                 drops, hard_dropped>>

\* K_RIGHT: if valid(board, piece, dx=1): piece['x'] += 1
KeyRight ==
  /\ Event("RIGHT")
  /\ piece' = IF ~paused /\ valid(board, piece, 1, 0, piece.shape)
              THEN [piece EXCEPT !.x = @ + 1] ELSE piece
  /\ UNCHANGED <<board, next_piece, score, level, total_lines, fall_timer, paused,
                 drops, hard_dropped>>

\* KeyUp restarting the gravity timer on an accepted rotation.
KeyUpResetsTimer ==
  /\ Event("UP")
  /\ LET rotated == rotate(piece.shape)
     IN  IF ~paused /\ valid(board, piece, 0, 0, rotated)
         THEN piece' = [piece EXCEPT !.shape = rotated] /\ fall_timer' = 0
         ELSE UNCHANGED <<piece, fall_timer>>
  /\ UNCHANGED <<board, next_piece, score, level, total_lines, paused,
                 drops, hard_dropped>>

\* KeyUp taking the rotated shape without asking valid.
KeyUpUnchecked ==
  /\ Event("UP")
  /\ piece' = IF ~paused THEN [piece EXCEPT !.shape = rotate(@)] ELSE piece
  /\ UNCHANGED <<board, next_piece, score, level, total_lines, fall_timer, paused,
                 drops, hard_dropped>>

\* KeyUp with a wall kick: a rotation that is rejected in place is tried one
\* column to the left.
KeyUpWallKick ==
  /\ Event("UP")
  /\ LET rotated == rotate(piece.shape)
     IN  piece' = IF ~paused /\ valid(board, piece, 0, 0, rotated)
                  THEN [piece EXCEPT !.shape = rotated]
                  ELSE IF ~paused /\ valid(board, piece, -1, 0, rotated)
                  THEN [piece EXCEPT !.shape = rotated, !.x = @ - 1]
                  ELSE piece
  /\ UNCHANGED <<board, next_piece, score, level, total_lines, fall_timer, paused,
                 drops, hard_dropped>>

\* K_UP: rotated = rotate(piece['shape']); if valid(..., shape=rotated): take it
KeyUp ==
  /\ Event("UP")
  /\ LET rotated == rotate(piece.shape)
     IN  piece' = IF ~paused /\ valid(board, piece, 0, 0, rotated)
                  THEN [piece EXCEPT !.shape = rotated] ELSE piece
  /\ UNCHANGED <<board, next_piece, score, level, total_lines, fall_timer, paused,
                 drops, hard_dropped>>

\* KeyDown without `fall_timer = 0`.
KeyDownNoReset ==
  /\ Event("DOWN")
  /\ IF ~paused /\ valid(board, piece, 0, 1, piece.shape)
     THEN /\ piece' = [piece EXCEPT !.y = @ + 1]
          /\ score' = score + 1
          /\ drops' = Append(drops, "DOWN")
     ELSE UNCHANGED <<piece, score, drops>>
  /\ UNCHANGED <<board, next_piece, level, total_lines, paused, hard_dropped,
                 fall_timer>>

\* K_DOWN: if valid(board, piece, dy=1): y += 1; score += 1; fall_timer = 0
KeyDown ==
  /\ Event("DOWN")
  /\ IF ~paused /\ valid(board, piece, 0, 1, piece.shape)
     THEN /\ piece' = [piece EXCEPT !.y = @ + 1]
          /\ score' = score + 1
          /\ fall_timer' = 0
          /\ drops' = Append(drops, "DOWN")
     ELSE UNCHANGED <<piece, score, fall_timer, drops>>
  /\ UNCHANGED <<board, next_piece, level, total_lines, paused, hard_dropped>>

\* hard_drop scoring a row like a soft drop (+1).
RECURSIVE hard_drop_soft_score(_, _, _)
hard_drop_soft_score(b, p, sc) ==
  IF valid(b, p, 0, 1, p.shape)
  THEN hard_drop_soft_score(b, [p EXCEPT !.y = @ + 1], sc + 1)
  ELSE [piece |-> p, score |-> sc]

\* hard_drop scoring the step that fails as well.
RECURSIVE hard_drop_extra_award(_, _, _)
hard_drop_extra_award(b, p, sc) ==
  IF valid(b, p, 0, 1, p.shape)
  THEN hard_drop_extra_award(b, [p EXCEPT !.y = @ + 1], sc + 2)
  ELSE [piece |-> p, score |-> sc + 2]

\* while valid(board, piece, dy=1): piece['y'] += 1; score += 2
RECURSIVE hard_drop(_, _, _)
hard_drop(b, p, sc) ==
  IF valid(b, p, 0, 1, p.shape)
  THEN hard_drop(b, [p EXCEPT !.y = @ + 1], sc + 2)
  ELSE [piece |-> p, score |-> sc]

\* KeySpace without `if paused: continue`.
KeySpaceWhilePaused ==
  /\ Event("SPACE")
  /\ LET d == hard_drop(board, piece, score)
     IN  /\ piece' = d.piece
         /\ score' = d.score
         /\ fall_timer' = level_interval(level) + 1
  /\ drops' = Append(drops, "SPACE") /\ hard_dropped' = TRUE
  /\ UNCHANGED <<board, next_piece, level, total_lines, paused>>

\* K_SPACE: the loop above, then fall_timer = level_interval(level) + 1
KeySpace ==
  /\ Event("SPACE")
  /\ IF ~paused
     THEN LET d == hard_drop(board, piece, score)
          IN  /\ piece' = d.piece
              /\ score' = d.score
              /\ fall_timer' = level_interval(level) + 1
              /\ drops' = Append(drops, "SPACE") /\ hard_dropped' = TRUE
     ELSE UNCHANGED <<piece, score, fall_timer, drops, hard_dropped>>
  /\ UNCHANGED <<board, next_piece, level, total_lines, paused>>

\* line_score without the level factor.
line_score_unscaled(sc, cleared, lv) == sc + LINE_SCORES[cleared + 1]

\* score += LINE_SCORES[cleared] * level
line_score(sc, cleared, lv) == sc + LINE_SCORES[cleared + 1] * lv

\* level_of stepping up one line late (at 11, 21, ... lines).
level_of_late(lines) == IF lines = 0 THEN 1 ELSE ((lines - 1) \div 10) + 1

\* level = total_lines // 10 + 1
level_of(lines) == (lines \div 10) + 1

\* Settle with the spawn check made against the board before its full rows
\* are cleared.
SettleCheckBeforeClear(name) ==
  LET locked == lock(board, piece)
      cl     == clear_lines(locked)
      lines  == total_lines + cl.cleared
  IN  /\ board' = cl.board
      /\ total_lines' = lines
      /\ score' = line_score(score, cl.cleared, level)
      /\ level' = level_of(lines)
      /\ piece' = next_piece
      /\ next_piece' = new_piece(name)
      /\ game_over' = ~valid(locked, next_piece, 0, 0, next_piece.shape)

\* Settle with `total_lines = cleared` for `total_lines += cleared`.
SettleAssignLines(name) ==
  LET locked == lock(board, piece)
      cl     == clear_lines(locked)
      lines  == cl.cleared
  IN  /\ board' = cl.board
      /\ total_lines' = lines
      /\ score' = line_score(score, cl.cleared, level)
      /\ level' = level_of(lines)
      /\ piece' = next_piece
      /\ next_piece' = new_piece(name)
      /\ game_over' = ~valid(cl.board, next_piece, 0, 0, next_piece.shape)

\* Settle with the new active piece starting in the column the settled piece
\* was in.
SettleKeepColumn(name) ==
  LET locked == lock(board, piece)
      cl     == clear_lines(locked)
      lines  == total_lines + cl.cleared
      spawn  == [next_piece EXCEPT !.x = piece.x]
  IN  /\ board' = cl.board
      /\ total_lines' = lines
      /\ score' = line_score(score, cl.cleared, level)
      /\ level' = level_of(lines)
      /\ piece' = spawn
      /\ next_piece' = new_piece(name)
      /\ game_over' = ~valid(cl.board, spawn, 0, 0, spawn.shape)

\* The else branch of the gravity step: the piece has settled.  `name` is the
\* name new_piece() draws for the piece queued next.
Settle(name) ==
  LET locked == lock(board, piece)
      cl     == clear_lines(locked)
      lines  == total_lines + cl.cleared
  IN  /\ board' = cl.board
      /\ total_lines' = lines
      /\ score' = line_score(score, cl.cleared, level)
      /\ level' = level_of(lines)
      /\ piece' = next_piece
      /\ next_piece' = new_piece(name)
      /\ game_over' = ~valid(cl.board, next_piece, 0, 0, next_piece.shape)

\* if fall_timer >= level_interval(level)
GravityDue == fall_timer >= level_interval(level)

\* After the event loop: `if paused: ... continue`, else the gravity step.
\* Control returns to the top of the loop.
EndTick(names) ==
  /\ pc = "events"
  /\ pc' = "loop" /\ nev' = 0
  /\ hard_dropped' = (paused /\ hard_dropped)
  /\ UNCHANGED <<ticks, paused, drops>>
  /\ IF paused
     THEN /\ Did("PAUSED")
          /\ UNCHANGED <<board, piece, next_piece, score, level, total_lines,
                         fall_timer, game_over, locks>>
     ELSE IF ~GravityDue
     THEN /\ Did("IDLE")
          /\ UNCHANGED <<board, piece, next_piece, score, level, total_lines,
                         fall_timer, game_over, locks>>
     ELSE /\ fall_timer' = 0
          /\ IF valid(board, piece, 0, 1, piece.shape)
             THEN /\ Did("FALL")
                  /\ piece' = [piece EXCEPT !.y = @ + 1]
                  /\ UNCHANGED <<board, next_piece, score, level, total_lines,
                                 game_over, locks>>
             ELSE /\ Did("LOCK")
                  /\ locks' = locks + 1
                  /\ \E name \in names : Settle(name)

Frame == EndTick(Names)

\* The game loop is left on game_over; after the game-over screen and a key
\* the restart loop starts a new session.
NewGame(names) ==
  /\ pc = "loop" /\ game_over
  /\ \E n1 \in names, n2 \in names :
       /\ board' = [r \in 1..ROWS |-> EmptyRow]
       /\ piece' = new_piece(n1)
       /\ next_piece' = new_piece(n2)
  /\ score' = 0 /\ level' = 1 /\ total_lines' = 0
  /\ fall_timer' = 0
  /\ paused' = FALSE
  /\ game_over' = FALSE
  /\ ticks' = 0 /\ nev' = 0
  /\ last' = [op |-> "NEW", pre |-> Snapshot']
  /\ drops' = <<>> /\ hard_dropped' = FALSE /\ locks' = 0
  /\ UNCHANGED pc

Restart == NewGame(Names)

Next ==
  \/ Tick
  \/ KeyP
  \/ KeyLeft
  \/ KeyRight
  \/ KeyUp
  \/ KeyDown
  \/ KeySpace
  \/ Frame
  \/ Restart

Spec == Init /\ [][Next]_vars

\* ------------------------------------------------- long sessions
\* The same loop followed through many more iterations, to reach levels
\* above 1: the random source draws only I and O pieces and the player only
\* moves sideways and hard-drops.
LongNames == {"I", "O"}

InitLong ==
  /\ NewSession(LongNames)
  /\ pc = "loop" /\ ticks = 0 /\ nev = 0
  /\ last = [op |-> "NEW", pre |-> Snapshot]
  /\ drops = <<>> /\ hard_dropped = FALSE /\ locks = 0

\* A long session goes on only while the timer is below LongIdle at the top
\* of the loop, that is, while each iteration ends in a lock.
TickLong == ticks < LongTicks /\ fall_timer < LongIdle /\ BeginTick

NextLong ==
  \/ TickLong
  \/ KeyLeft
  \/ KeyRight
  \/ KeySpace
  \/ EndTick(LongNames)
  \/ NewGame(LongNames)

SpecLong == InitLong /\ [][NextLong]_vars

\* ------------------------------------------------- sessions without end
\* The loop with its timer running the whole gravity interval: a session that
\* is never paused and goes on receiving ticks until LiveLocks pieces have
\* settled (or the game is over).  Iterations are not counted here.
LiveNames == {"T"}

InitLive ==
  /\ NewSession(LiveNames)
  /\ pc = "loop" /\ ticks = 0 /\ nev = 0
  /\ last = [op |-> "NEW", pre |-> Snapshot]
  /\ drops = <<>> /\ hard_dropped = FALSE /\ locks = 0

TickLive == locks < LiveLocks /\ LoopHead /\ UNCHANGED ticks

FrameLive == EndTick(LiveNames)

NextLive ==
  \/ TickLive
  \/ KeyLeft
  \/ KeyRight
  \/ KeyUp
  \/ KeyDown
  \/ KeySpace
  \/ FrameLive

\* The clock goes on ticking and the event queue of one frame is finite.
SpecLive ==
  InitLive /\ [][NextLive]_vars /\ WF_vars(TickLive) /\ WF_vars(FrameLive)

\* ------------------------------------------------- the helpers on their own
\* The helper functions called directly, on arguments drawn from bounded
\* sets: boards built from a few kinds of row, every piece at every position
\* of the board, and the levels up to MaxLevel.  A run draws the arguments,
\* turns the piece any number of times and makes one call; `last` records the
\* call, its arguments and what it returned.
HalfRowLeft == [c \in 1..COLS |-> IF c <= COLS \div 2 THEN "J" ELSE EMPTY]

HalfRowRight == [c \in 1..COLS |-> IF c > COLS \div 2 THEN "L" ELSE EMPTY]

FilledRow == [c \in 1..COLS |-> "I"]

\* Boards without full rows, for valid and rotate.
OpenBoards == [1..ROWS -> {EmptyRow, HalfRowLeft, HalfRowRight}]

\* Boards with any set of full rows, for clear_lines.
MixedBoards == [1..ROWS -> {EmptyRow, HalfRowLeft, HalfRowRight, FilledRow}]

Offsets == {-1, 0, 1}

Called(fn, args, out) ==
  last' = [op |-> fn, pre |-> Snapshot, args |-> args, out |-> out]

InitUnit ==
  /\ \/ /\ board \in OpenBoards
        /\ \E n \in Names, x \in 0..(COLS - 1), y \in 0..(ROWS - 1) :
             piece = [new_piece(n) EXCEPT !.x = x, !.y = y]
        /\ level = 1
     \/ /\ board \in MixedBoards
        /\ piece = new_piece("O")
        /\ level = 1
     \/ /\ board = [r \in 1..ROWS |-> EmptyRow]
        /\ piece = new_piece("O")
        /\ level \in 1..MaxLevel
  /\ next_piece = new_piece("O")
  /\ score = 0 /\ total_lines = (level - 1) * 10
  /\ fall_timer = 0 /\ paused = FALSE /\ game_over = FALSE
  /\ pc = "unit" /\ ticks = 0 /\ nev = 0
  /\ last = [op |-> "NEW", pre |-> Snapshot]
  /\ drops = <<>> /\ hard_dropped = FALSE /\ locks = 0

\* valid(board, piece, dx, dy) with the piece's own shape, and
\* valid(board, piece, shape=rotated) as the K_UP handler calls it
CallValid ==
  /\ pc = "unit" /\ pc' = "done"
  /\ \/ \E dx \in Offsets, dy \in Offsets :
          Called("valid", <<dx, dy, piece.shape>>,
                 valid(board, piece, dx, dy, piece.shape))
     \/ Called("valid", <<0, 0, rotate(piece.shape)>>,
               valid(board, piece, 0, 0, rotate(piece.shape)))
  /\ UNCHANGED <<board, piece, next_piece, score, level, total_lines,
                 fall_timer, paused, game_over, ticks, nev, drops,
                 hard_dropped, locks>>

\* piece['shape'] = rotate(piece['shape'])
CallRotate ==
  /\ pc = "unit"
  /\ piece' = [piece EXCEPT !.shape = rotate(@)]
  /\ Called("rotate", <<piece.shape>>, rotate(piece.shape))
  /\ UNCHANGED <<board, next_piece, score, level, total_lines,
                 fall_timer, paused, game_over, pc, ticks, nev, drops,
                 hard_dropped, locks>>

\* cleared = clear_lines(board)
CallClearLines ==
  /\ pc = "unit" /\ pc' = "done"
  /\ LET cl == clear_lines(board)
     IN  /\ board' = cl.board
         /\ Called("clear_lines", <<board>>, cl.cleared)
  /\ UNCHANGED <<piece, next_piece, score, level, total_lines,
                 fall_timer, paused, game_over, ticks, nev, drops,
                 hard_dropped, locks>>

\* level_interval(level)
CallLevelInterval ==
  /\ pc = "unit" /\ pc' = "done"
  /\ Called("level_interval", <<level>>, level_interval(level))
  /\ UNCHANGED <<board, piece, next_piece, score, level, total_lines,
                 fall_timer, paused, game_over, ticks, nev, drops,
                 hard_dropped, locks>>

NextUnit ==
  \/ CallValid
  \/ CallRotate
  \/ CallClearLines
  \/ CallLevelInterval

SpecUnit == InitUnit /\ [][NextUnit]_vars

\* ================================================================ claims
\* The rows of a board that are completely filled, counted without
\* clear_lines.
FullCount(b) ==
  Cardinality({r \in 1..ROWS : \A c \in 1..COLS : b[r][c] # EMPTY})

\* The step is the settling of the active piece: the gravity step of a
\* running session is due and the piece cannot move down.
SettleStep ==
  /\ pc = "events" /\ pc' = "loop"
  /\ ~paused
  /\ fall_timer >= level_interval(level)
  /\ ~valid(board, piece, 0, 1, piece.shape)

\* C1: while the session is paused, no tick and no input event changes the
\* board, the active piece, the next piece, score, level or total lines; the
\* paused flag itself changes only by the P key.
C1_PauseFrame ==
  [][paused =>
       /\ UNCHANGED <<board, piece, next_piece, score, level, total_lines>>
       /\ (paused' # paused => last'.op = "P")]_vars

\* A hard drop was handled while paused, with room below the piece.
C1_Witness ==
  /\ paused /\ last.pre.paused
  /\ last.op = "SPACE"
  /\ valid(board, piece, 0, 1, piece.shape)

\* C2: game_over becomes true exactly in a step that settles the active
\* piece of a running session and whose newly activated piece, the former
\* next piece at its spawn position, is not valid on the board left by the
\* line clearing.
C2_GameOverOnlyOnSpawnCollision ==
  [][(~game_over /\ game_over') <=>
       /\ SettleStep
       /\ piece' = next_piece
       /\ board' = clear_lines(lock(board, piece)).board
       /\ ~valid(board', piece', 0, 0, piece'.shape)]_vars

\* The session is over after a lock.
C2_Witness ==
  /\ game_over
  /\ last.op = "LOCK"
  /\ ~valid(board, piece, 0, 0, piece.shape)

\* C3: a settling step at level L that clears k rows adds k to total_lines
\* and adds [0, 100, 300, 500, 800][k] * L to score, L being the level before
\* the step.
C3_LockScoring ==
  [][SettleStep =>
       LET k == FullCount(lock(board, piece))
       IN  /\ k <= 4
           /\ total_lines' = total_lines + k
           /\ score' = score + <<0, 100, 300, 500, 800>>[k + 1] * level]_vars

\* A lock at level 2 cleared two rows and added 300 * 2 to score.
C3_Witness ==
  /\ last.op = "LOCK"
  /\ last.pre.level = 2
  /\ total_lines = last.pre.total_lines + 2
  /\ score = last.pre.score + 600

\* C4: in every reachable state level = floor(total_lines / 10) + 1.
C4_LevelFromLines == level = (total_lines \div 10) + 1

\* One lock took total_lines from 9 to 11, and the level to 2.
C4_Witness ==
  /\ last.op = "LOCK"
  /\ last.pre.total_lines = 9
  /\ total_lines = 11
  /\ level = 2

\* C5: within a session score and total_lines never decrease from one state
\* to the next, and neither is ever negative.
C5_Monotone ==
  /\ [](score >= 0 /\ total_lines >= 0)
  /\ [][last'.op # "NEW" => score' >= score /\ total_lines' >= total_lines]_vars

\* A second lock of a session that had cleared a row before.
C5_Witness ==
  /\ last.op = "LOCK"
  /\ last.pre.total_lines > 0
  /\ total_lines >= last.pre.total_lines
  /\ score > 0

\* The step is what follows the event loop of one iteration.
EndTickStep == pc = "events" /\ pc' = "loop"

\* C6: once a hard drop has taken effect, the next gravity check of a running
\* session locks the piece, whatever was handled in between.
C6_HardDropForcesLock ==
  [][(hard_dropped /\ EndTickStep /\ ~paused) => last'.op = "LOCK"]_vars

\* Whether the placement a key asks for is valid.
CandidateValid(op) ==
  CASE op = "LEFT"  -> valid(board, piece, -1, 0, piece.shape)
    [] op = "RIGHT" -> valid(board, piece, 1, 0, piece.shape)
    [] op = "UP"    -> valid(board, piece, 0, 0, rotate(piece.shape))
    [] op = "DOWN"  -> valid(board, piece, 0, 1, piece.shape)

\* C7: a left, right, rotate or soft-drop key whose placement is not valid
\* changes nothing of the game: piece, board, next piece, score, level, total
\* lines, the gravity timer and the flags are as before.
C7_RejectedIsNoOp ==
  [][(/\ last'.op \in {"LEFT", "RIGHT", "UP", "DOWN"}
      /\ ~paused
      /\ ~CandidateValid(last'.op)) =>
       UNCHANGED <<board, piece, next_piece, score, level, total_lines,
                   fall_timer, paused, game_over>>]_vars

\* A rotation was rejected because the rotated shape would cross the right
\* wall, and the piece is as it was.
C7_Witness ==
  /\ last.op = "UP" /\ ~last.pre.paused
  /\ last.pre.piece.x + Len(rotate(last.pre.piece.shape)[1]) > COLS
  /\ ~valid(board, last.pre.piece, 0, 0, rotate(last.pre.piece.shape))
  /\ piece = last.pre.piece
  /\ fall_timer = last.pre.fall_timer

\* C8: a hard drop in a running session moves the piece down by d rows, d
\* the largest number for which the placements 1..d rows down are all valid;
\* x and shape stay, the placement reached is valid with the row below not,
\* score grows by 2 * d, and board, level, total lines and the next piece stay.
C8_HardDrop ==
  [][(last'.op = "SPACE" /\ ~paused) =>
       LET d == piece'.y - piece.y
       IN  /\ d >= 0
           /\ \A k \in 1..d : valid(board, piece, 0, k, piece.shape)
           /\ ~valid(board, piece, 0, d + 1, piece.shape)
           /\ piece' = [piece EXCEPT !.y = @ + d]
           /\ valid(board', piece', 0, 0, piece'.shape)
           /\ ~valid(board', piece', 0, 1, piece'.shape)
           /\ score' = score + 2 * d
           /\ UNCHANGED <<board, level, total_lines, next_piece>>]_vars

\* A hard drop took the piece down onto a locked piece, short of the floor.
C8_Witness ==
  /\ last.op = "SPACE" /\ ~last.pre.paused
  /\ piece.y > last.pre.piece.y
  /\ score = last.pre.score + 2 * (piece.y - last.pre.piece.y)
  /\ piece.y + Len(piece.shape) < ROWS

\* C9: a hard drop handled right after a hard drop that took effect moves
\* the piece by no row and adds nothing to score.
C9_HardDropIdempotent ==
  [][(last.op = "SPACE" /\ ~paused /\ last'.op = "SPACE") =>
       (piece' = piece /\ score' = score)]_vars

\* Two hard drops took effect in succession, the first having moved the piece.
C9_Witness ==
  /\ nev = 2 /\ drops = <<"SPACE", "SPACE">>
  /\ last.op = "SPACE"
  /\ piece.y > 0 /\ score > 0
  /\ piece = last.pre.piece /\ score = last.pre.score

\* What a soft-drop key does in a running session.
SoftDropEffect ==
  (last'.op = "DOWN" /\ ~paused) =>
    IF valid(board, piece, 0, 1, piece.shape)
    THEN /\ piece' = [piece EXCEPT !.y = @ + 1]
         /\ score' = score + 1
         /\ fall_timer' = 0
    ELSE UNCHANGED <<piece, score, fall_timer>>

Rejected(b, p, dx, dy, s) ==
  \E r \in 1..Len(s) : \E c \in 1..Len(s[r]) :
    /\ s[r][c] = 1
    /\ LET col == p.x + dx + c - 1
           row == p.y + dy + r - 1
       IN  \/ col < 0
           \/ col >= COLS
           \/ row >= ROWS
           \/ (row >= 0 /\ b[row + 1][col + 1] # EMPTY)

\* C11: valid returns false exactly when some occupied cell of the shape lands
\* in a column outside 0..COLS-1, in a row >= ROWS, or in a row >= 0 on an
\* occupied board cell (cells in negative rows are held only to the column
\* bounds), and the call leaves board and piece as they were.
C11_ValidContract ==
  [][last'.op = "valid" =>
       /\ (last'.out = FALSE) <=>
            Rejected(board, piece, last'.args[1], last'.args[2], last'.args[3])
       /\ UNCHANGED <<board, piece>>]_vars

\* valid accepted a placement with a cell in row -1, in a column where the
\* last row of the board is occupied.
C11_Witness ==
  /\ last.op = "valid" /\ last.out = TRUE
  /\ piece.y + last.args[2] = -1
  /\ \E c \in 1..Len(last.args[3][1]) :
       /\ last.args[3][1][c] = 1
       /\ piece.x + last.args[1] + c \in 1..COLS
       /\ board[ROWS][piece.x + last.args[1] + c] # EMPTY

\* A row with at least one empty cell.
HasGap(row) == \E c \in 1..Len(row) : row[c] = EMPTY

\* C12: on a board with any set F of full rows, clear_lines returns |F| and
\* leaves a board of the same height whose first |F| rows are empty and whose
\* other rows are the rows of the original that were not full, in their order.
C12_ClearLinesContract ==
  [][last'.op = "clear_lines" =>
       LET F == {r \in 1..Len(board) : \A c \in 1..COLS : board[r][c] # EMPTY}
           n == Cardinality(F)
       IN  /\ last'.out = n
           /\ Len(board') = Len(board)
           /\ \A r \in 1..n : \A c \in 1..COLS : board'[r][c] = EMPTY
           /\ SubSeq(board', n + 1, Len(board')) = SelectSeq(board, HasGap)]_vars

\* clear_lines removed two full rows that were not adjacent (the first and the
\* third) and kept the two different half-filled rows below them in order.
C12_Witness ==
  /\ last.op = "clear_lines" /\ last.out = 2
  /\ ~HasGap(last.args[1][1]) /\ ~HasGap(last.args[1][3])
  /\ last.args[1][2] = HalfRowLeft /\ last.args[1][4] = HalfRowRight
  /\ board[1] = EmptyRow /\ board[2] = EmptyRow
  /\ board[3] = HalfRowLeft /\ board[4] = HalfRowRight

\* The occupied cells of a shape matrix, as (row, column) pairs.
Occupied(s) == {rc \in (1..Len(s)) \X (1..Len(s[1])) : s[rc[1]][rc[2]] = 1}

\* C13: for every orientation of every tetromino, four rotations give a
\* matrix of the same dimensions with the same occupied cells, and one
\* rotation keeps the number of occupied cells, which is 4.
C13_RotateFourTimes ==
  LET s  == piece.shape
      r4 == rotate(rotate(rotate(rotate(s))))
  IN  /\ Len(r4) = Len(s) /\ Len(r4[1]) = Len(s[1])
      /\ Occupied(r4) = Occupied(s)
      /\ Cardinality(Occupied(s)) = 4
      /\ Cardinality(Occupied(rotate(s))) = 4

\* The fourth rotation in a row brought a T piece back to the matrix it
\* started from.
C13_Witness ==
  /\ last.op = "rotate" /\ piece.name = "T"
  /\ last.args[1] = rotate(rotate(rotate(SHAPES["T"])))
  /\ last.out = SHAPES["T"] /\ piece.shape = SHAPES["T"]

\* C14 as stated: for every level L >= 1 the interval of level L + 1 is
\* smaller than the interval of level L, and the interval is positive.
C14_StrictlyDecreasing ==
  [][last'.op = "level_interval" =>
       /\ last'.out > 0
       /\ level_interval(level + 1) < last'.out]_vars

\* C14 amended: the interval of level L + 1 is never larger than that of
\* level L and is smaller while the interval of level L is above 2; the
\* interval is never below 2.
C14_DecreasingToFloor ==
  [][last'.op = "level_interval" =>
       /\ last'.out >= 2
       /\ level_interval(level + 1) <= last'.out
       /\ (last'.out > 2 => level_interval(level + 1) < last'.out)]_vars

\* level_interval was called at level 13, where the interval has reached 2
\* and is the same at level 14.
C14_Witness ==
  /\ last.op = "level_interval" /\ level = 13
  /\ last.out = 2 /\ level_interval(14) = 2

\* A piece as it leaves the factory: canonical matrix of its kind, row 0,
\* centred.
AtSpawn(p) ==
  /\ p.name \in {"I", "O", "T", "S", "Z", "J", "L"}
  /\ p.shape = SHAPES[p.name]
  /\ p.y = 0
  /\ p.x = (COLS \div 2) - (Len(p.shape[1]) \div 2)

\* C15: at every lock the piece that becomes active is the piece that was
\* queued, in canonical orientation at row 0 and centred, whatever was done
\* to the piece that settled, and a freshly made piece is queued.
C15_SpawnFromQueue ==
  /\ [](AtSpawn(next_piece))
  /\ [][last'.op = "LOCK" =>
          /\ piece' = next_piece
          /\ AtSpawn(piece')
          /\ AtSpawn(next_piece')]_vars

\* A piece that had been turned and moved off the spawn column settled, and
\* the piece of the same kind that followed it is at spawn.
C15_Witness ==
  /\ last.op = "LOCK"
  /\ last.pre.piece.name = piece.name
  /\ last.pre.piece.shape # SHAPES[piece.name]
  /\ last.pre.piece.x # piece.x
  /\ AtSpawn(piece)

\* Every occupied cell of the piece lies on the board, on an empty cell.
OnFreeCells(b, p) ==
  \A r \in 1..Len(p.shape) : \A c \in 1..Len(p.shape[r]) :
    p.shape[r][c] = 1 =>
      /\ p.x + c - 1 \in 0..(COLS - 1)
      /\ p.y + r - 1 \in 0..(ROWS - 1)
      /\ b[p.y + r][p.x + c] = EMPTY

\* C16: while the session is not over, and so whenever lock is called, every
\* occupied cell of the active piece lies in columns 0..COLS-1 and rows
\* 0..ROWS-1 on an empty board cell.
C16_PieceOnFreeCells ==
  /\ [](~game_over => OnFreeCells(board, piece))
  /\ [][last'.op = "LOCK" => OnFreeCells(board, piece)]_vars

\* The second piece of a session settled on top of the first, short of the
\* floor, and the session goes on.
C16_Witness ==
  /\ last.op = "LOCK" /\ ~game_over /\ locks = 2
  /\ last.pre.piece.y + Len(last.pre.piece.shape) < ROWS
  /\ \E c \in 1..COLS : board[ROWS][c] # EMPTY
  /\ OnFreeCells(board, piece)

\* C17: every lock clears between 0 and 4 rows, an index of the five-entry
\* score table: the board never holds a full row between locks, so the rows
\* a lock fills are among the rows the settling piece covers.
C17_ClearedWithinTable ==
  /\ [](FullCount(board) = 0)
  /\ [][last'.op = "LOCK" =>
          LET locked == lock(board, piece)
              k      == total_lines' - total_lines
          IN  /\ k = FullCount(locked)
              /\ k \in 0..4
              /\ k + 1 \in DOMAIN LINE_SCORES
              /\ \A r \in 1..ROWS :
                   (\A c \in 1..COLS : locked[r][c] # EMPTY) =>
                     r - 1 \in piece.y..(piece.y + Len(piece.shape) - 1)]_vars

\* A lock filled and cleared two rows at once and left no full row.
C17_Witness ==
  /\ last.op = "LOCK" /\ locks = 2
  /\ total_lines = last.pre.total_lines + 2
  /\ Len(last.pre.piece.shape) = 2
  /\ FullCount(board) = 0

\* C18: nothing that happens while the session is paused advances the
\* gravity timer: from a paused state every step leaves fall_timer as it is,
\* so the timer is the same when play resumes as when it was paused.
C18_PausedTimerFrozen ==
  [][paused => fall_timer' = fall_timer]_vars

\* The number of occupied cells of a board.
Cells(b) ==
  Cardinality({rc \in (1..ROWS) \X (1..COLS) : b[rc[1]][rc[2]] # EMPTY})

\* C19: the board holds 4 cells for every piece locked in the session less
\* COLS cells for every line cleared; a lock fills four cells that were
\* empty, each row it clears takes COLS cells away, and nothing but a lock
\* (or the start of a new session) changes the board.
C19_CellConservation ==
  /\ [](Cells(board) = 4 * locks - COLS * total_lines)
  /\ [][board' # board => last'.op \in {"LOCK", "NEW"}]_vars
  /\ [][last'.op = "LOCK" =>
          /\ Cells(lock(board, piece)) = Cells(board) + 4
          /\ Cells(board') = Cells(lock(board, piece))
                               - COLS * (total_lines' - total_lines)]_vars

\* After five locks and at least two cleared lines there are cells on the
\* board.
C19_Witness ==
  /\ last.op = "LOCK" /\ locks = 5 /\ total_lines >= 2
  /\ Cells(board) > 0
  /\ Cells(board) = 20 - COLS * total_lines

\* C20: in a session that is never paused and goes on receiving ticks, every
\* active piece settles, whatever keys arrive: no key and no gravity step
\* takes the piece up, the interval is positive, and the timer goes back to
\* zero only in a gravity step or an accepted soft drop.
C20_EveryPieceLocks ==
  /\ \A k \in 0..(LiveLocks - 1) : (locks = k /\ ~game_over) ~> (locks = k + 1)
  /\ [](level_interval(level) > 0)
  /\ [][last'.op # "LOCK" => piece'.y >= piece.y]_vars
  /\ [][(fall_timer' = 0 /\ fall_timer # 0) =>
          \/ last'.op \in {"FALL", "LOCK"}
          \/ last'.op = "DOWN" /\ piece'.y = piece.y + 1]_vars

\* A piece that was turned and never dropped by a key settled when the timer
\* reached the gravity interval.
C20_Witness ==
  /\ last.op = "LOCK" /\ locks = 1 /\ score = 0
  /\ last.pre.fall_timer = level_interval(1)
  /\ last.pre.piece.shape # SHAPES[last.pre.piece.name]
====
